---- MODULE Spec2Model ----
(***************************************************************************)
(* Model of the rate-limiting subsystem of app.py: the per-IP, per-UTC-day *)
(* quota counter kept in Redis, the bypass tokens, the before_request      *)
(* middleware, the after_request header hook and the admin handlers.       *)
(*                                                                         *)
(* Each in-flight HTTP request is a process; one step of a process is one  *)
(* access to shared state (a Redis command or a read of the clock)         *)
(* together with the local code that follows it up to the next access.     *)
(* Time is counted in ticks of 1/TicksPerSec second since the UTC midnight *)
(* at which the model starts; the clock only visits the instants of        *)
(* DayOffsets in each day.                                                 *)
(***************************************************************************)
EXTENDS Integers, Sequences, FiniteSets, TLC

\* ---------------------------------------------------------------- bounds
TicksPerSec == 2      \* clock resolution: ticks per second
LastInstant == 3      \* index of the last instant the clock visits
MaxReqs     == 2      \* requests served in one run
MaxHdr      == 3      \* characters of the longest X-Forwarded-For header

\* ------------------------------------------------------ program constants
DAILY_LIMIT     == 2      \* int(os.environ.get('DAILY_LIMIT', '5')); 2 as in test_unit.py
SecondsPerDay   == 86400  \* timedelta(days=1)
SecondsPerHour  == 3600   \* ttl_hours * 3600
DefaultTtlHours == 12     \* data.get('ttl_hours', 12)

Procs  == {"p1", "p2"}    \* concurrently handled requests
IPs    == {"a", "b"}      \* client addresses
Tokens == {"t1"}          \* values of secrets.token_urlsafe / X-Bypass-Key

\* faulty variant of ExemptEndpoints: the admin routes are left out
ExemptHealthOnly == {"health"}

\* line 92: the endpoints rate_limit_middleware returns early for
ExemptEndpoints == {"health", "admin_issue_bypass", "admin_revoke_bypass"}
AdminEndpoints  == {"admin_issue_bypass", "admin_revoke_bypass", "admin_rate_limit_status"}
Endpoints == {"health", "proxy_status", "get_transcript"} \cup AdminEndpoints

\* --------------------------------------------------------------- strings
\* a string is a sequence of characters; an address of IPs is the
\* one-character string of its name. "V" stands for a piece of text one of
\* the patterns of extract_video_id matches, "x" for any other text.
Str(i) == <<i>>

Space == " "

Comma == ","

RECURSIVE lstrip(_)
lstrip(s) == IF s # << >> /\ Head(s) = Space THEN lstrip(Tail(s)) ELSE s

RECURSIVE rstrip(_)
rstrip(s) ==
    IF s # << >> /\ s[Len(s)] = Space THEN rstrip(SubSeq(s, 1, Len(s) - 1)) ELSE s

\* str.strip(): leading and trailing whitespace removed
strip(s) == rstrip(lstrip(s))

\* s.split(',')[0]: the text before the first comma, all of s without one
RECURSIVE first_entry(_)
first_entry(s) ==
    IF s = << >> \/ Head(s) = Comma THEN << >> ELSE <<Head(s)>> \o first_entry(Tail(s))

\* faulty variant of get_client_ip: the header is ignored
get_client_ip_peer_only(forwarded_for, remote_addr) == remote_addr

\* lines 37-43: the left-most entry of X-Forwarded-For, stripped, when the
\* header is there and not empty, else request.remote_addr
get_client_ip(forwarded_for, remote_addr) ==
    IF forwarded_for # << >> THEN strip(first_entry(forwarded_for)) ELSE remote_addr

\* the address of IPs a client identity names, "none" if it names none
AddrOf(s) == IF Len(s) = 1 /\ s[1] \in IPs THEN s[1] ELSE "none"

RECURSIVE StringsUpTo(_, _)
StringsUpTo(C, n) ==
    IF n = 0 THEN {<< >>}
    ELSE LET S == StringsUpTo(C, n - 1) IN S \cup {<<c>> \o t : c \in C, t \in S}

\* the address i, between optional whitespace, is the first entry of the
\* comma-separated chain h
Leftmost(h, i) ==
    \E n \in 1 .. Len(h) :
        /\ h[n] = i
        /\ \A m \in 1 .. (n - 1) : h[m] = Space
        /\ \E e \in n .. Len(h) :
              /\ \A m \in (n + 1) .. e : h[m] = Space
              /\ e = Len(h) \/ h[e + 1] = Comma

\* the X-Forwarded-For chains a proxy hands over for the clients of IPs
Headers ==
    {h \in StringsUpTo(IPs \cup {Space, Comma}, MaxHdr) : \E i \in IPs : Leftmost(h, i)}

\* lines 153-164: the video id when a pattern matches, None (the empty
\* string here) otherwise
extract_video_id(url) == IF \E k \in DOMAIN url : url[k] = "V" THEN <<"V">> ELSE << >>

\* the JSON body of POST /get_transcript: without "url", with "url": null,
\* or with a string
NoUrlBody == [has_url |-> FALSE, null |-> FALSE, url |-> << >>]

NullUrlBody == [has_url |-> TRUE, null |-> TRUE, url |-> << >>]

UrlBody(u) == [has_url |-> TRUE, null |-> FALSE, url |-> u]

\* the bodies the one-worker specification sends
TranscriptBodies == {NoUrlBody, UrlBody(<<"x">>), UrlBody(<<"V">>)}

\* every kind of body: also empty and blank urls, padded ones, null
AllTranscriptBodies ==
    {NoUrlBody, NullUrlBody} \cup
    {UrlBody(u) : u \in {<< >>, <<Space>>, <<"x">>, <<Space, "x">>, <<"V">>, <<"x", "V", Space>>}}

\* ------------------------------------------------------------------ time
TicksPerDay == SecondsPerDay * TicksPerSec

\* the instants of a day the clock visits: 00:00:00, 01:00:00 and the last
\* tick before midnight
DayOffsets == <<0, SecondsPerHour * TicksPerSec, TicksPerDay - 1>>

InstantAt(k) == (k \div Len(DayOffsets)) * TicksPerDay + DayOffsets[(k % Len(DayOffsets)) + 1]

Instants == {InstantAt(k) : k \in 0 .. LastInstant}

Days == 0 .. (LastInstant \div Len(DayOffsets))

\* faulty variant of utc_day: the key does not depend on the day
utc_day_fixed(t) == 0

\* datetime.now(timezone.utc).strftime('%Y%m%d'): the UTC day of instant t
utc_day(t) == t \div TicksPerDay

\* (now + timedelta(days=1)).replace(hour=0, minute=0, second=0, microsecond=0)
next_midnight(t) == (utc_day(t) + 1) * TicksPerDay

\* int((midnight - now).total_seconds()): whole seconds, truncated
seconds_until_midnight(t) == (next_midnight(t) - t) \div TicksPerSec

\* faulty variant of reset_timestamp: the midnight the current day began at
reset_timestamp_past(t) == (utc_day(t) * TicksPerDay) \div TicksPerSec

\* int(midnight.timestamp()): Unix seconds of the next midnight
reset_timestamp(t) == next_midnight(t) \div TicksPerSec

\* -------------------------------------------------------- the Redis store
\* a counter key rl:ip:<ip>:<day>: val = 0 is an absent key, exp = -1 is a
\* key without time-to-live, otherwise exp is the tick at which it expires
NoKey == [val |-> 0, exp |-> -1]

\* a bypass key bp:<token>: the tick at which it expires, NoToken if absent
NoToken == -1

\* faulty variant of RedisIncr: one counter per day shared by all
\* addresses (the address is missing from the key)
RedisIncrShared(kv, ip, d) ==
    [i \in IPs |-> [kv[i] EXCEPT ![d] = [val |-> @.val + 1, exp |-> @.exp]]]

\* INCR: creates the key at 1, without time-to-live, when it is absent
RedisIncr(kv, ip, d) ==
    [kv EXCEPT ![ip][d] = [val |-> @.val + 1, exp |-> @.exp]]

\* EXPIRE key ttl: no effect on an absent key; a non-positive ttl deletes
\* the key; otherwise the key expires ttl seconds after the call
RedisExpire(kv, ip, d, ttl, t) ==
    IF kv[ip][d].val = 0 THEN kv
    ELSE IF ttl <= 0 THEN [kv EXCEPT ![ip][d] = NoKey]
    ELSE [kv EXCEPT ![ip][d].exp = t + ttl * TicksPerSec]

\* GET: the stored count, 0 standing for None (redis_client.get(key) or 0)
RedisGet(kv, ip, d) == kv[ip][d].val

\* TTL: -2 for an absent key, -1 for a key without expiry, else the
\* remaining time rounded to the nearest second
RedisTtl(kv, ip, d, t) ==
    IF kv[ip][d].val = 0 THEN -2
    ELSE IF kv[ip][d].exp = -1 THEN -1
    ELSE ((((kv[ip][d].exp - t) * 1000) \div TicksPerSec) + 500) \div 1000

\* EXISTS bp:<token>
RedisExists(tk, tok) == tk[tok] # NoToken

\* SETEX bp:<token> ttl "1" (called with ttl > 0)
RedisSetex(tk, tok, ttl, t) == [tk EXCEPT ![tok] = t + ttl * TicksPerSec]

\* faulty variant of RedisDelete: the key is left in the store
RedisDeleteKept(tk, tok) == tk

\* DEL bp:<token>
RedisDelete(tk, tok) == [tk EXCEPT ![tok] = NoToken]

\* keys whose time-to-live has elapsed at instant t are gone
ExpireCounters(kv, t) ==
    [i \in IPs |-> [d \in Days |->
        IF kv[i][d].val > 0 /\ kv[i][d].exp # -1 /\ kv[i][d].exp <= t
        THEN NoKey ELSE kv[i][d]]]

ExpireTokens(tk, t) ==
    [k \in Tokens |-> IF tk[k] # NoToken /\ tk[k] <= t THEN NoToken ELSE tk[k]]

\* ----------------------------------------------------------------- state
VARIABLES
    now,           \* the clock, in ticks
    redis_client,  \* TRUE iff a store client was configured and pinged at startup
    ADMIN_TOKEN,   \* TRUE iff an admin secret is configured
    store_up,      \* FALSE while every Redis command raises
    rl,            \* rl[ip][day]: the counter keys rl:ip:<ip>:<day>
    bp,            \* bp[token]: the bypass keys bp:<token>
    proc,          \* proc[p]: the request process p is handling
    nreq,          \* requests that have arrived
    hist,          \* history: hist[ip][day] = the values INCR returned for the key
    tok            \* history: tok[token] = issue / expiry / revocation of a token

vars == <<now, redis_client, ADMIN_TOKEN, store_up, rl, bp, proc, nreq, hist, tok>>

NoRet == [called |-> FALSE, allowed |-> TRUE, count |-> 0, remaining |-> 0]

Ret(a, c, r) == [called |-> TRUE, allowed |-> a, count |-> c, remaining |-> r]

IdleProc ==
    [pc |-> "idle",
     \* the request
     endpoint |-> "none", ip |-> "none", bypass_key |-> "none",
     xff |-> << >>, remote_addr |-> "none",
     admin_hdr |-> "none", q_ip |-> "none", body_key |-> "none",
     body_ttl |-> << >>, ttl_hours |-> 0, body |-> NoUrlBody,
     \* locals of the middleware, the handler and the after-request hook
     key_day |-> -1, cur |-> 0, ttl |-> -1, ret |-> NoRet,
     h_key |-> "none", h_ttl |-> 0, h_day |-> -1, h_count |-> 0,
     \* the response
     status |-> 0, by |-> "none",
     xrl |-> FALSE, limit |-> 0, remaining |-> 0, reset |-> 0,
     retry_hdr |-> -1, b_retry_after |-> -1,
     b_key |-> "none", b_ttl |-> 0, b_expires |-> -1, b_revoked |-> FALSE,
     b_count |-> 0, b_remaining |-> 0, b_limited |-> FALSE, b_ttlsec |-> 0,
     \* history of the request
     handler_ran |-> FALSE,   \* the route's handler was invoked
     provider |-> FALSE,      \* the transcript provider was called
     nth |-> 0,               \* ordinal of this request's INCR on its key
     tok_live |-> "unchecked",\* what EXISTS bp:<token> answered in the middleware
     touched |-> FALSE,       \* the request issued a Redis command
     mw_err |-> FALSE]        \* a Redis command raised in check_rate_limit

NoTok == [generated |-> FALSE, stored |-> FALSE, exp |-> -1, revoked |-> FALSE]

Empty == [i \in IPs |-> [d \in Days |-> NoKey]]

\* the application starts at 00:00:00 UTC of day 0. The store outlives the
\* application: it is empty, or it already holds what c earlier requests
\* of address "a" at this instant left (the counter at c, at or above the
\* limit, expiring at the next midnight) and possibly a bypass token issued
\* at this instant with the default time-to-live.
Init ==
    /\ now = 0
    /\ redis_client \in BOOLEAN
    /\ ADMIN_TOKEN \in BOOLEAN
    /\ store_up = TRUE
    /\ proc = [p \in Procs |-> IdleProc]
    /\ nreq = 0
    /\ \E c \in {0, DAILY_LIMIT, DAILY_LIMIT + 1} :
         /\ c > 0 => redis_client /\ ADMIN_TOKEN
         /\ rl = IF c = 0 THEN Empty
                 ELSE RedisExpire([Empty EXCEPT !["a"][0].val = c], "a", 0,
                                  seconds_until_midnight(0), 0)
         /\ hist = [i \in IPs |-> [d \in Days |->
                        IF i = "a" /\ d = 0 THEN [n \in 1 .. c |-> n] ELSE << >>]]
    /\ \E k \in SUBSET Tokens :
         /\ k # {} => redis_client /\ ADMIN_TOKEN
         /\ bp = [t \in Tokens |-> IF t \in k
                     THEN DefaultTtlHours * SecondsPerHour * TicksPerSec ELSE NoToken]
         /\ tok = [t \in Tokens |-> IF t \in k
                     THEN [generated |-> TRUE, stored |-> TRUE, revoked |-> FALSE,
                           exp |-> DefaultTtlHours * SecondsPerHour * TicksPerSec]
                     ELSE NoTok]

Max(a, b) == IF a >= b THEN a ELSE b

SetProc(p, r) == proc' = [proc EXCEPT ![p] = r]

\* a finished response is delivered before anything else happens
NoneDone == \A p \in Procs : proc[p].pc # "done"

\* -------------------------------------------------- the clock, the store
\* time passes; Redis drops the keys whose time-to-live has elapsed
Tick ==
    /\ NoneDone
    /\ \E k \in 0 .. (LastInstant - 1) : now = InstantAt(k) /\ now' = InstantAt(k + 1)
    /\ rl' = ExpireCounters(rl, now')
    /\ bp' = ExpireTokens(bp, now')
    /\ UNCHANGED <<redis_client, ADMIN_TOKEN, store_up, proc, nreq, hist, tok>>

\* the store becomes unreachable after startup: every command raises
StoreFail ==
    /\ NoneDone
    /\ redis_client /\ store_up
    /\ store_up' = FALSE
    /\ UNCHANGED <<now, redis_client, ADMIN_TOKEN, rl, bp, proc, nreq, hist, tok>>

StoreRecover ==
    /\ NoneDone
    /\ redis_client /\ ~store_up
    /\ store_up' = TRUE
    /\ UNCHANGED <<now, redis_client, ADMIN_TOKEN, rl, bp, proc, nreq, hist, tok>>

\* ------------------------------------------- before_request: the limiter
\* faulty variant of Verdict: the middleware returns None whatever
\* check_rate_limit answered, so the handler always runs
VerdictIgnored(r, a, c, m) == [r EXCEPT !.ret = Ret(a, c, m), !.pc = "handler"]

\* what check_rate_limit returns, and what rate_limit_middleware does with
\* it (lines 96-98): pass to the handler, or build the 429
Verdict(r, a, c, m) ==
    [r EXCEPT !.ret = Ret(a, c, m), !.pc = IF a THEN "handler" ELSE "mw_block"]

\* remaining / rate_limited / return of check_rate_limit (lines 80-83)
CountVerdict(r, c) == Verdict(r, ~(c > DAILY_LIMIT), c, Max(0, DAILY_LIMIT - c))

\* the 'except' branch of check_rate_limit (lines 85-87): fail open
FailOpen(r) == [Verdict(r, TRUE, 0, DAILY_LIMIT) EXCEPT !.mw_err = TRUE]

\* an exception nobody catches: Flask answers 500 and the handler's
\* response, if any, is lost
Unhandled(r) ==
    [r EXCEPT !.pc = "done", !.status = 500, !.by = "unhandled",
              !.xrl = FALSE, !.limit = 0, !.remaining = 0, !.reset = 0,
              !.b_key = "none", !.b_ttl = 0, !.b_expires = -1, !.b_revoked = FALSE,
              !.b_count = 0, !.b_remaining = 0, !.b_limited = FALSE, !.b_ttlsec = 0]

\* faulty variant of EnterMiddleware: check_rate_limit lacks the test
\* 'if not redis_client'
EnterMiddlewareNoClientTest(r) ==
    IF r.endpoint \in ExemptEndpoints THEN [r EXCEPT !.pc = "handler"]
    ELSE IF r.bypass_key # "none" THEN [r EXCEPT !.pc = "mw_exists"]
    ELSE [r EXCEPT !.pc = "mw_key"]

\* rate_limit_middleware entry (lines 89-96) and the start of
\* check_rate_limit (lines 54-61), up to the first Redis command
EnterMiddleware(r) ==
    IF r.endpoint \in ExemptEndpoints THEN [r EXCEPT !.pc = "handler"]
    ELSE IF ~redis_client THEN Verdict(r, TRUE, 0, DAILY_LIMIT)
    ELSE IF r.bypass_key # "none" THEN [r EXCEPT !.pc = "mw_exists"]
    ELSE [r EXCEPT !.pc = "mw_key"]

\* a request for one of the endpoints E, with X-Forwarded-For among H, from
\* one of the peers I, with X-Bypass-Key among B, arrives at process p and
\* enters the middleware; ip = get_client_ip() (line 95)
Arrive(p, E, H, I, B) ==
    /\ proc[p].pc = "idle"
    /\ nreq < MaxReqs
    /\ nreq' = nreq + 1
    /\ \E e \in E, h \in H, i \in I, bk \in B :
            SetProc(p, EnterMiddleware(
                [IdleProc EXCEPT !.endpoint = e, !.xff = h, !.remote_addr = i,
                                 !.ip = AddrOf(get_client_ip(h, Str(i))),
                                 !.bypass_key = bk]))
    /\ UNCHANGED <<now, redis_client, ADMIN_TOKEN, store_up, rl, bp, hist, tok>>

\* requests that reach the app directly, without X-Forwarded-For
rate_limit_middleware(p) == Arrive(p, Endpoints, {<< >>}, IPs, Tokens \cup {"none"})

\* faulty variant of check_bypass: the answer of EXISTS is not acted upon
\* and the request is metered although its token is in the store
check_bypass_unheeded(p) ==
    /\ proc[p].pc = "mw_exists"
    /\ LET r == [proc[p] EXCEPT !.touched = TRUE] IN
       IF ~store_up
       THEN SetProc(p, Unhandled([r EXCEPT !.mw_err = TRUE]))
       ELSE SetProc(p, [r EXCEPT !.tok_live = IF RedisExists(bp, r.bypass_key)
                                              THEN "yes" ELSE "no",
                                 !.pc = "mw_key"])
    /\ UNCHANGED <<now, redis_client, ADMIN_TOKEN, store_up, rl, bp, nreq, hist, tok>>

\* faulty variant of check_bypass: any X-Bypass-Key header bypasses, the
\* store is not asked whether the token still exists
check_bypass_unchecked(p) ==
    /\ proc[p].pc = "mw_exists"
    /\ SetProc(p, Verdict([proc[p] EXCEPT !.tok_live = "yes"], TRUE, 0, DAILY_LIMIT))
    /\ UNCHANGED <<now, redis_client, ADMIN_TOKEN, store_up, rl, bp, nreq, hist, tok>>

\* lines 62-64: redis_client.exists(f"bp:{bypass_key}"), outside the try
check_bypass(p) ==
    /\ proc[p].pc = "mw_exists"
    /\ LET r == [proc[p] EXCEPT !.touched = TRUE] IN
       IF ~store_up
       THEN SetProc(p, Unhandled([r EXCEPT !.mw_err = TRUE]))
       ELSE IF RedisExists(bp, r.bypass_key)
       THEN SetProc(p, Verdict([r EXCEPT !.tok_live = "yes"], TRUE, 0, DAILY_LIMIT))
       ELSE SetProc(p, [r EXCEPT !.tok_live = "no", !.pc = "mw_key"])
    /\ UNCHANGED <<now, redis_client, ADMIN_TOKEN, store_up, rl, bp, nreq, hist, tok>>

\* line 66: key = get_rate_limit_key(ip) reads the clock
mw_get_rate_limit_key(p) ==
    /\ proc[p].pc = "mw_key"
    /\ SetProc(p, [proc[p] EXCEPT !.key_day = utc_day(now), !.pc = "mw_incr"])
    /\ UNCHANGED <<now, redis_client, ADMIN_TOKEN, store_up, rl, bp, nreq, hist, tok>>

\* faulty variant of mw_incr: the test 'if current_count == 1' is missing
\* and every request goes on to set the expiry
mw_incr_always_expire(p) ==
    /\ proc[p].pc = "mw_incr"
    /\ LET r == [proc[p] EXCEPT !.touched = TRUE]
           i == proc[p].ip
           d == proc[p].key_day
       IN IF ~store_up
          THEN /\ SetProc(p, FailOpen(r))
               /\ UNCHANGED <<rl, hist>>
          ELSE /\ rl' = RedisIncr(rl, i, d)
               /\ hist' = [hist EXCEPT ![i][d] = Append(@, rl'[i][d].val)]
               /\ SetProc(p, [r EXCEPT !.cur = rl'[i][d].val, !.nth = Len(hist'[i][d]),
                                       !.pc = "mw_now"])
    /\ UNCHANGED <<now, redis_client, ADMIN_TOKEN, store_up, bp, nreq, tok>>

\* line 70: current_count = redis_client.incr(key); lines 73, 80-83 when
\* the count is not 1
mw_incr(p) ==
    /\ proc[p].pc = "mw_incr"
    /\ LET r == [proc[p] EXCEPT !.touched = TRUE]
           i == proc[p].ip
           d == proc[p].key_day
       IN IF ~store_up
          THEN /\ SetProc(p, FailOpen(r))
               /\ UNCHANGED <<rl, hist>>
          ELSE /\ rl' = RedisIncr(rl, i, d)
               /\ hist' = [hist EXCEPT ![i][d] = Append(@, rl'[i][d].val)]
               /\ LET c == rl'[i][d].val
                      s == [r EXCEPT !.cur = c, !.nth = Len(hist'[i][d])]
                  IN SetProc(p, IF c = 1 THEN [s EXCEPT !.pc = "mw_now"]
                                         ELSE CountVerdict(s, c))
    /\ UNCHANGED <<now, redis_client, ADMIN_TOKEN, store_up, bp, nreq, tok>>

\* lines 75-77: now, midnight, ttl
mw_ttl(p) ==
    /\ proc[p].pc = "mw_now"
    /\ SetProc(p, [proc[p] EXCEPT !.ttl = seconds_until_midnight(now), !.pc = "mw_expire"])
    /\ UNCHANGED <<now, redis_client, ADMIN_TOKEN, store_up, rl, bp, nreq, hist, tok>>

\* line 78: redis_client.expire(key, ttl); then lines 80-83
mw_expire(p) ==
    /\ proc[p].pc = "mw_expire"
    /\ LET r == proc[p] IN
       IF ~store_up
       THEN /\ SetProc(p, FailOpen(r))
            /\ UNCHANGED rl
       ELSE /\ rl' = RedisExpire(rl, r.ip, r.key_day, r.ttl, now)
            /\ SetProc(p, CountVerdict(r, r.cur))
    /\ UNCHANGED <<now, redis_client, ADMIN_TOKEN, store_up, bp, nreq, hist, tok>>

\* lines 98-115: the 429 response; add_rate_limit_headers then returns it
\* unchanged (status >= 400)
mw_block(p) ==
    /\ proc[p].pc = "mw_block"
    /\ SetProc(p, [proc[p] EXCEPT !.pc = "done", !.status = 429, !.by = "middleware",
                                  !.xrl = TRUE, !.limit = DAILY_LIMIT, !.remaining = 0,
                                  !.reset = reset_timestamp(now),
                                  !.b_retry_after = reset_timestamp(now),
                                  !.retry_hdr = seconds_until_midnight(now)])
    /\ UNCHANGED <<now, redis_client, ADMIN_TOKEN, store_up, rl, bp, nreq, hist, tok>>

\* ------------------------------------------ after_request: quota headers
\* add_rate_limit_headers, lines 119-123, entered with the handler's
\* response: up to its first Redis command
AfterHandler(r) ==
    IF ~redis_client \/ r.status >= 400 THEN [r EXCEPT !.pc = "done"]
    ELSE IF r.bypass_key # "none" THEN [r EXCEPT !.pc = "after_exists"]
    ELSE [r EXCEPT !.pc = "after_get"]

\* the handler returns a response with status st
Respond(r, st) ==
    AfterHandler([r EXCEPT !.status = st, !.by = "handler", !.handler_ran = TRUE])

\* line 124: redis_client.exists(f"bp:{bypass_key}"), outside the try
after_exists(p) ==
    /\ proc[p].pc = "after_exists"
    /\ LET r == [proc[p] EXCEPT !.touched = TRUE] IN
       IF ~store_up THEN SetProc(p, Unhandled(r))
       ELSE IF RedisExists(bp, r.bypass_key) THEN SetProc(p, [r EXCEPT !.pc = "done"])
       ELSE SetProc(p, [r EXCEPT !.pc = "after_get"])
    /\ UNCHANGED <<now, redis_client, ADMIN_TOKEN, store_up, rl, bp, nreq, hist, tok>>

\* lines 127-147: the key of the current day, redis_client.get(key) and
\* the three headers; a Redis error is caught and the response goes out
\* without them
add_rate_limit_headers(p) ==
    /\ proc[p].pc = "after_get"
    /\ LET r == [proc[p] EXCEPT !.touched = TRUE, !.pc = "done"] IN
       IF ~store_up THEN SetProc(p, r)
       ELSE SetProc(p, [r EXCEPT !.xrl = TRUE, !.limit = DAILY_LIMIT,
                                 !.remaining = Max(0, DAILY_LIMIT - RedisGet(rl, r.ip, utc_day(now))),
                                 !.reset = reset_timestamp(now)])
    /\ UNCHANGED <<now, redis_client, ADMIN_TOKEN, store_up, rl, bp, nreq, hist, tok>>

\* ------------------------------------------------------------- handlers
\* lines 206-214
health(p) ==
    /\ proc[p].pc = "handler" /\ proc[p].endpoint = "health"
    /\ SetProc(p, Respond(proc[p], 200))
    /\ UNCHANGED <<now, redis_client, ADMIN_TOKEN, store_up, rl, bp, nreq, hist, tok>>

\* lines 216-229
proxy_status(p) ==
    /\ proc[p].pc = "handler" /\ proc[p].endpoint = "proxy_status"
    /\ SetProc(p, Respond(proc[p], 200))
    /\ UNCHANGED <<now, redis_client, ADMIN_TOKEN, store_up, rl, bp, nreq, hist, tok>>

\* lines 341-405 for a body among D: data.get('url', '').strip() raises on
\* null and the 'except' answers 500; 400 for an empty url and for one
\* without a video id; otherwise the transcript provider is called and
\* answers (200) or fails (500)
get_transcript_of(p, D) ==
    /\ proc[p].pc = "handler" /\ proc[p].endpoint = "get_transcript"
    /\ \E b \in D :
         LET r == [proc[p] EXCEPT !.body = b]
             youtube_url == strip(IF b.has_url THEN b.url ELSE << >>)
         IN
         IF b.null THEN SetProc(p, Respond(r, 500))
         ELSE IF youtube_url = << >> THEN SetProc(p, Respond(r, 400))
         ELSE IF extract_video_id(youtube_url) = << >> THEN SetProc(p, Respond(r, 400))
         ELSE \E st \in {200, 500} : SetProc(p, Respond([r EXCEPT !.provider = TRUE], st))
    /\ UNCHANGED <<now, redis_client, ADMIN_TOKEN, store_up, rl, bp, nreq, hist, tok>>

get_transcript(p) == get_transcript_of(p, TranscriptBodies)

\* X-Admin-Token: absent, equal to the secret, different from it
AdminHeaders == {"none", "good", "bad"}

\* the gate every admin handler starts with (lines 234-242, 273-281,
\* 306-314): 0 when the request may proceed, else the status returned
AdminGate(r) ==
    IF ~ADMIN_TOKEN THEN 503
    ELSE IF r.admin_hdr # "good" THEN 401
    ELSE IF ~redis_client THEN 503
    ELSE 0

\* lines 232-254: the gate, a fresh token, ttl_hours = data.get('ttl_hours',
\* 12) from a body without the field or with 1 or 0 in it, ttl_seconds =
\* ttl_hours * 3600
admin_issue_bypass(p) ==
    /\ proc[p].pc = "handler" /\ proc[p].endpoint = "admin_issue_bypass"
    /\ \E ah \in AdminHeaders, tb \in {<< >>, <<1>>, <<0>>} :
       LET r == [proc[p] EXCEPT !.handler_ran = TRUE, !.admin_hdr = ah]
           th == IF tb = << >> THEN DefaultTtlHours ELSE tb[1]
       IN
       IF AdminGate(r) # 0
       THEN /\ SetProc(p, Respond(r, AdminGate(r)))
            /\ UNCHANGED tok
       ELSE \E k \in Tokens :
            /\ ~tok[k].generated
            /\ tok' = [tok EXCEPT ![k].generated = TRUE]
            /\ SetProc(p, [r EXCEPT !.body_ttl = tb, !.ttl_hours = th, !.h_key = k,
                                    !.h_ttl = th * SecondsPerHour, !.pc = "h_setex"])
    /\ UNCHANGED <<now, redis_client, ADMIN_TOKEN, store_up, rl, bp, nreq, hist>>

\* faulty variant of issue_setex: the outcome of SETEX is ignored and the
\* handler goes on to the 200 response when the token was not stored
issue_setex_unchecked(p) ==
    /\ proc[p].pc = "h_setex"
    /\ LET r == [proc[p] EXCEPT !.touched = TRUE] IN
       IF ~store_up \/ r.h_ttl <= 0
       THEN /\ SetProc(p, [r EXCEPT !.pc = "h_issued"])
            /\ UNCHANGED <<bp, tok>>
       ELSE /\ bp' = RedisSetex(bp, r.h_key, r.h_ttl, now)
            /\ tok' = [tok EXCEPT ![r.h_key].stored = TRUE,
                                  ![r.h_key].exp = now + r.h_ttl * TicksPerSec]
            /\ SetProc(p, [r EXCEPT !.pc = "h_issued"])
    /\ UNCHANGED <<now, redis_client, ADMIN_TOKEN, store_up, rl, nreq, hist>>

\* line 255: redis_client.setex(redis_key, ttl_seconds, "1"); Redis rejects
\* a non-positive time-to-live; any error is answered 500 (line 268)
issue_setex(p) ==
    /\ proc[p].pc = "h_setex"
    /\ LET r == [proc[p] EXCEPT !.touched = TRUE] IN
       IF ~store_up \/ r.h_ttl <= 0
       THEN /\ SetProc(p, Respond(r, 500))
            /\ UNCHANGED <<bp, tok>>
       ELSE /\ bp' = RedisSetex(bp, r.h_key, r.h_ttl, now)
            /\ tok' = [tok EXCEPT ![r.h_key].stored = TRUE,
                                  ![r.h_key].exp = now + r.h_ttl * TicksPerSec]
            /\ SetProc(p, [r EXCEPT !.pc = "h_issued"])
    /\ UNCHANGED <<now, redis_client, ADMIN_TOKEN, store_up, rl, nreq, hist>>

\* lines 258-265: expires_at = now + ttl_seconds, the 200 response
issue_expires_at(p) ==
    /\ proc[p].pc = "h_issued"
    /\ LET r == proc[p] IN
       SetProc(p, Respond([r EXCEPT !.b_key = r.h_key, !.b_ttl = r.h_ttl,
                                    !.b_expires = now + r.h_ttl * TicksPerSec], 200))
    /\ UNCHANGED <<now, redis_client, ADMIN_TOKEN, store_up, rl, bp, nreq, hist, tok>>

\* lines 271-288: the gate, 400 without bypass_key
admin_revoke_bypass(p) ==
    /\ proc[p].pc = "handler" /\ proc[p].endpoint = "admin_revoke_bypass"
    /\ \E ah \in AdminHeaders, k \in Tokens \cup {"none"} :
       LET r == [proc[p] EXCEPT !.handler_ran = TRUE, !.admin_hdr = ah] IN
       IF AdminGate(r) # 0 THEN SetProc(p, Respond(r, AdminGate(r)))
       ELSE IF k = "none" THEN SetProc(p, Respond(r, 400))
       ELSE SetProc(p, [r EXCEPT !.body_key = k, !.pc = "h_delete"])
    /\ UNCHANGED <<now, redis_client, ADMIN_TOKEN, store_up, rl, bp, nreq, hist, tok>>

\* lines 291-301: deleted = redis_client.delete(redis_key)
revoke_delete(p) ==
    /\ proc[p].pc = "h_delete"
    /\ LET r == [proc[p] EXCEPT !.touched = TRUE] IN
       IF ~store_up
       THEN /\ SetProc(p, Respond(r, 500))
            /\ UNCHANGED <<bp, tok>>
       ELSE /\ bp' = RedisDelete(bp, r.body_key)
            /\ tok' = [tok EXCEPT ![r.body_key].revoked = @ \/ RedisExists(bp, r.body_key)]
            /\ SetProc(p, Respond([r EXCEPT !.b_key = r.body_key,
                                            !.b_revoked = RedisExists(bp, r.body_key)], 200))
    /\ UNCHANGED <<now, redis_client, ADMIN_TOKEN, store_up, rl, nreq, hist>>

\* lines 304-319: the gate, 400 without ip
admin_rate_limit_status(p) ==
    /\ proc[p].pc = "handler" /\ proc[p].endpoint = "admin_rate_limit_status"
    /\ \E ah \in AdminHeaders, q \in IPs \cup {"none"} :
       LET r == [proc[p] EXCEPT !.handler_ran = TRUE, !.admin_hdr = ah] IN
       IF AdminGate(r) # 0 THEN SetProc(p, Respond(r, AdminGate(r)))
       ELSE IF q = "none" THEN SetProc(p, Respond(r, 400))
       ELSE SetProc(p, [r EXCEPT !.q_ip = q, !.pc = "h_get"])
    /\ UNCHANGED <<now, redis_client, ADMIN_TOKEN, store_up, rl, bp, nreq, hist, tok>>

\* lines 321-324: the key of the current day,
\* current_count = int(redis_client.get(key) or 0)
status_get(p) ==
    /\ proc[p].pc = "h_get"
    /\ LET r == [proc[p] EXCEPT !.touched = TRUE, !.h_day = utc_day(now)] IN
       IF ~store_up THEN SetProc(p, Respond(r, 500))
       ELSE SetProc(p, [r EXCEPT !.h_count = RedisGet(rl, r.q_ip, r.h_day), !.pc = "h_ttl"])
    /\ UNCHANGED <<now, redis_client, ADMIN_TOKEN, store_up, rl, bp, nreq, hist, tok>>

\* lines 327-339: ttl = redis_client.ttl(key), the 200 response
status_ttl(p) ==
    /\ proc[p].pc = "h_ttl"
    /\ LET r == proc[p] IN
       IF ~store_up THEN SetProc(p, Respond(r, 500))
       ELSE SetProc(p, Respond([r EXCEPT !.b_count = r.h_count,
                                         !.b_remaining = Max(0, DAILY_LIMIT - r.h_count),
                                         !.b_ttlsec = RedisTtl(rl, r.q_ip, r.h_day, now),
                                         !.b_limited = (r.h_count >= DAILY_LIMIT)], 200))
    /\ UNCHANGED <<now, redis_client, ADMIN_TOKEN, store_up, rl, bp, nreq, hist, tok>>

\* the response of process p goes out to the client
deliver(p) ==
    /\ proc[p].pc = "done"
    /\ SetProc(p, IdleProc)
    /\ UNCHANGED <<now, redis_client, ADMIN_TOKEN, store_up, rl, bp, nreq, hist, tok>>

\* -------------------------------------------------------- specification
\* the steps of the request process p handles, after its arrival
Step(p) ==
    \/ check_bypass(p)
    \/ mw_get_rate_limit_key(p)
    \/ mw_incr(p)
    \/ mw_ttl(p)
    \/ mw_expire(p)
    \/ mw_block(p)
    \/ health(p)
    \/ proxy_status(p)
    \/ get_transcript(p)
    \/ admin_issue_bypass(p)
    \/ issue_setex(p)
    \/ issue_expires_at(p)
    \/ admin_revoke_bypass(p)
    \/ revoke_delete(p)
    \/ admin_rate_limit_status(p)
    \/ status_get(p)
    \/ status_ttl(p)
    \/ after_exists(p)
    \/ add_rate_limit_headers(p)

\* one worker: requests for every endpoint are served one at a time, while
\* time passes and the store fails and recovers between any two steps
Next ==
    \/ Tick
    \/ StoreFail
    \/ StoreRecover
    \/ rate_limit_middleware("p1")
    \/ Step("p1")
    \/ deliver("p1")

Spec == Init /\ [][Next]_vars

\* two workers: rate-limited requests of one address, with or without a
\* bypass key, are served concurrently by the processes of Procs while time
\* passes; the store stays reachable
concurrent_request(p) == Arrive(p, {"get_transcript"}, {<< >>}, {"a"}, Tokens \cup {"none"})

NextConc ==
    \/ Tick
    \/ \E p \in Procs : NoneDone /\ concurrent_request(p)
    \/ \E p \in Procs : NoneDone /\ check_bypass(p)
    \/ \E p \in Procs : NoneDone /\ after_exists(p)
    \/ \E p \in Procs : NoneDone /\ mw_get_rate_limit_key(p)
    \/ \E p \in Procs : NoneDone /\ mw_incr(p)
    \/ \E p \in Procs : NoneDone /\ mw_ttl(p)
    \/ \E p \in Procs : NoneDone /\ mw_expire(p)
    \/ \E p \in Procs : NoneDone /\ mw_block(p)
    \/ \E p \in Procs : NoneDone /\ get_transcript(p)
    \/ \E p \in Procs : NoneDone /\ add_rate_limit_headers(p)
    \/ \E p \in Procs : deliver(p)

InitConc == Init /\ redis_client /\ ADMIN_TOKEN

SpecConc == InitConc /\ [][NextConc]_vars

\* one worker behind a proxy: POST /get_transcript requests with every
\* X-Forwarded-For chain of Headers (the peer is then the proxy, "b"), or
\* without the header from any peer, and with every kind of body; the store
\* is reachable and empty at the start and the clock stands still
forwarded_request(p) ==
    \/ Arrive(p, {"get_transcript"}, Headers, {"b"}, {"none"})
    \/ Arrive(p, {"get_transcript"}, {<< >>}, IPs, {"none"})

transcript_request(p) == get_transcript_of(p, AllTranscriptBodies)

NextInputs ==
    \/ forwarded_request("p1")
    \/ mw_get_rate_limit_key("p1")
    \/ mw_incr("p1")
    \/ mw_ttl("p1")
    \/ mw_expire("p1")
    \/ mw_block("p1")
    \/ transcript_request("p1")
    \/ add_rate_limit_headers("p1")
    \/ deliver("p1")

InitInputs ==
    /\ Init /\ redis_client /\ ADMIN_TOKEN
    /\ bp = [t \in Tokens |-> NoToken]
    /\ rl \in {Empty, RedisExpire([Empty EXCEPT !["a"][0].val = DAILY_LIMIT], "a", 0,
                                  seconds_until_midnight(0), 0)}

SpecInputs == InitInputs /\ [][NextInputs]_vars

\* ================================================================ claims
\* the counter of the address and day a request arrives on
CountOf(r) == RedisGet(rl, r.ip, utc_day(now))

\* the token k was stored once and has since been revoked or has expired
TokenDead(k) == tok[k].stored /\ (tok[k].revoked \/ now >= tok[k].exp)

\* C1: with the store reachable and no valid bypass token, the Nth
\* rate-limited request of an address within a UTC day gets currentCount = N
\* and allowed = (N <= DAILY_LIMIT), and the (DAILY_LIMIT+1)th gets 429
\* (requests are looked at while the day they arrived on lasts)
C1_NthRequestGetsN ==
    \A p \in Procs :
        LET r == proc[p] IN
        (r.nth > 0 /\ r.ret.called /\ ~r.mw_err /\ r.key_day = utc_day(now)) =>
            /\ r.ret.count = r.nth
            /\ r.ret.allowed = (r.nth <= DAILY_LIMIT)
            /\ (r.pc = "done" /\ r.nth = DAILY_LIMIT + 1) => r.status = 429

\* C2: concurrent rate-limited requests of one address within one UTC day
\* each obtain a distinct counter value, and at most DAILY_LIMIT of them
\* obtain a value that lets them through (a day is looked at while it lasts)
C2_DistinctCounts ==
    \A i \in IPs, d \in Days :
        utc_day(now) = d =>
        /\ \A m, n \in DOMAIN hist[i][d] : m # n => hist[i][d][m] # hist[i][d][n]
        /\ Cardinality({n \in DOMAIN hist[i][d] : hist[i][d][n] <= DAILY_LIMIT}) <= DAILY_LIMIT

\* C3: a request whose bypass token exists in the store when it is checked
\* gets (allowed = true, 0, DAILY_LIMIT) from check_rate_limit whatever the
\* count of its address, is not answered 429, and does not increment a counter
C3_BypassNotMetered ==
    \A p \in Procs :
        LET r == proc[p] IN
        r.tok_live = "yes" =>
            /\ r.ret = Ret(TRUE, 0, DAILY_LIMIT)
            /\ r.nth = 0 /\ r.key_day = -1
            /\ r.pc # "mw_block" /\ r.status # 429

\* C3 case: a bypassed request reaches its handler while the counter of its
\* address is above the limit
C3_Witness ==
    \E p \in Procs :
        /\ proc[p].tok_live = "yes" /\ proc[p].handler_ran
        /\ CountOf(proc[p]) > DAILY_LIMIT

\* C4: a request whose token has been revoked or has expired (also at the
\* very instant of expiry) is not bypassed when the token is checked: it
\* goes on to the counter, and it is let through exactly when the count it
\* obtains is within DAILY_LIMIT, and answered 429 otherwise
C4_DeadTokenIsMetered ==
    /\ [][\A p \in Procs :
            (/\ proc[p].pc = "mw_exists" /\ proc'[p].pc # "mw_exists"
             /\ store_up /\ TokenDead(proc[p].bypass_key))
            => (proc'[p].pc = "mw_key" /\ proc'[p].tok_live = "no" /\ ~proc'[p].ret.called)]_vars
    /\ [](\A p \in Procs :
            LET r == proc[p] IN
            (r.tok_live = "no" /\ r.ret.called /\ ~r.mw_err) =>
                /\ r.nth > 0
                /\ r.ret.allowed = (r.ret.count <= DAILY_LIMIT)
                /\ r.handler_ran => r.ret.allowed
                /\ (r.pc = "done" /\ ~r.ret.allowed) => r.status = 429)

\* C4 case: a request carries a token at the very instant its time-to-live
\* elapses, is counted and is answered 429
C4_Witness ==
    \E p \in Procs :
        /\ proc[p].bypass_key # "none"
        /\ tok[proc[p].bypass_key].stored /\ ~tok[proc[p].bypass_key].revoked
        /\ now = tok[proc[p].bypass_key].exp
        /\ proc[p].tok_live = "no" /\ proc[p].nth > 0 /\ proc[p].status = 429

\* C5: a request the store fails on in the rate-limiting code reaches its
\* handler all the same, and no response is a 500 raised by that code
C5_FailOpen ==
    \A p \in Procs :
        /\ proc[p].by # "unhandled"
        /\ (proc[p].mw_err /\ proc[p].pc = "done") => proc[p].handler_ran

\* C6: without a store client check_rate_limit returns (true, 0,
\* DAILY_LIMIT), no request issues a Redis command, no response is a 429
\* and no response carries the quota headers
C6_NoClientNoLimiting ==
    ~redis_client =>
        /\ rl = Empty
        /\ \A k \in Tokens : bp[k] = NoToken
        /\ \A p \in Procs :
            LET r == proc[p] IN
            /\ ~r.touched /\ ~r.xrl /\ r.status # 429 /\ r.by # "unhandled"
            /\ r.ret.called => r.ret = Ret(TRUE, 0, DAILY_LIMIT)
            /\ (r.handler_ran /\ r.endpoint \notin {"health", "admin_issue_bypass",
                                                     "admin_revoke_bypass"}) => r.ret.called

\* C6 case: without a store client a rate-limited request is answered by
\* its handler
C6_Witness ==
    /\ ~redis_client
    /\ \E p \in Procs : /\ proc[p].endpoint = "get_transcript" /\ proc[p].pc = "done"
                        /\ proc[p].status = 200 /\ proc[p].ret.called

\* C7: when check_rate_limit reports allowed = false the response is the
\* middleware's 429 and the handler is not invoked; when it reports
\* allowed = true the handler is invoked
C7_BlockedNeverHandled ==
    \A p \in Procs :
        LET r == proc[p] IN
        r.ret.called =>
            /\ ~r.ret.allowed => (~r.handler_ran /\ r.pc \in {"mw_block", "done"})
            /\ (~r.ret.allowed /\ r.pc = "done") => (r.status = 429 /\ r.by = "middleware")
            /\ (r.ret.allowed /\ r.pc = "done") => r.handler_ran

\* C7 case: a request refused by check_rate_limit has been answered 429
C7_Witness ==
    \E p \in Procs : /\ proc[p].ret.called /\ ~proc[p].ret.allowed
                     /\ proc[p].pc = "done" /\ proc[p].status = 429

\* C8: /health and /proxy_status are never answered 429
C8_HealthAndProxyStatusNever429 ==
    \A p \in Procs :
        proc[p].endpoint \in {"health", "proxy_status"} => proc[p].status # 429

\* C9: requests to /health, /admin/issue_bypass and /admin/revoke_bypass
\* never call check_rate_limit, never increment a counter and are never
\* answered 429
C9_ExemptSkipLimiter ==
    \A p \in Procs :
        LET r == proc[p] IN
        r.endpoint \in {"health", "admin_issue_bypass", "admin_revoke_bypass"} =>
            /\ ~r.ret.called /\ r.tok_live = "unchecked"
            /\ r.nth = 0 /\ r.key_day = -1
            /\ r.pc \notin {"mw_exists", "mw_key", "mw_incr", "mw_now", "mw_expire", "mw_block"}
            /\ r.status # 429

\* C9 case: /admin/revoke_bypass is answered 200 for an address whose
\* counter is above the limit
C9_Witness ==
    \E p \in Procs : /\ proc[p].endpoint = "admin_revoke_bypass" /\ proc[p].pc = "done"
                     /\ proc[p].status = 200 /\ CountOf(proc[p]) > DAILY_LIMIT

\* C10: a request to /admin/rate_limit_status is never answered 429 and
\* does not increment a counter
C10_StatusNotMetered ==
    \A p \in Procs :
        proc[p].endpoint = "admin_rate_limit_status" =>
            (proc[p].status # 429 /\ proc[p].nth = 0)

\* C11: on the three admin routes a finished request is answered 503 when
\* no admin secret is configured, and 401 when a secret is configured and
\* the X-Admin-Token header is missing or differs from it, whatever the
\* state of the store and of the caller's counter
C11_AdminGate ==
    \A p \in Procs :
        LET r == proc[p] IN
        (r.endpoint \in {"admin_issue_bypass", "admin_revoke_bypass",
                         "admin_rate_limit_status"} /\ r.pc = "done") =>
            /\ ~ADMIN_TOKEN => r.status = 503
            /\ (ADMIN_TOKEN /\ r.admin_hdr # "good") => r.status = 401

\* C12: a quota counter stays in the store until a UTC midnight: no step
\* removes it at another instant, and the expiry it has been given is a
\* midnight at most 24 hours ahead
C12_ExpiresAtNextMidnight ==
    /\ [][\A i \in IPs, d \in Days :
            (rl[i][d].val > 0 /\ rl'[i][d].val = 0)
            => (now' # now /\ now' % TicksPerDay = 0)]_vars
    /\ [](\A i \in IPs, d \in Days :
            (rl[i][d].val > 0 /\ rl[i][d].exp # -1)
            => (rl[i][d].exp % TicksPerDay = 0 /\ rl[i][d].exp <= now + TicksPerDay))

\* C13: for sequential requests of one address within one UTC day, store
\* reachable and no bypass, the k-th response with k <= DAILY_LIMIT and a
\* handler status below 400 carries X-RateLimit-Remaining = DAILY_LIMIT - k,
\* and the (DAILY_LIMIT+1)th is a 429 (requests are looked at while the day
\* they arrived on lasts)
C13_RemainingCountsDown ==
    \A p \in Procs :
        LET r == proc[p] IN
        (r.pc = "done" /\ r.nth > 0 /\ ~r.mw_err /\ r.key_day = utc_day(now)) =>
            /\ (r.nth <= DAILY_LIMIT /\ r.status < 400 /\ r.xrl)
                    => r.remaining = DAILY_LIMIT - r.nth
            /\ r.nth = DAILY_LIMIT + 1 => r.status = 429

\* C14: every 429 is the middleware's response: its body's retry_after is
\* the Unix time of the next UTC midnight and equals X-RateLimit-Reset,
\* X-RateLimit-Limit is DAILY_LIMIT, X-RateLimit-Remaining is 0, and
\* Retry-After is the whole seconds from now to that midnight, so that
\* now + Retry-After does not pass retry_after
C14_BlockedResponseShape ==
    \A p \in Procs :
        LET r == proc[p] IN
        r.status = 429 =>
            /\ r.pc = "done" /\ r.by = "middleware" /\ ~r.handler_ran
            /\ r.b_retry_after = ((now \div TicksPerDay) + 1) * SecondsPerDay
            /\ r.xrl /\ r.reset = r.b_retry_after
            /\ r.limit = DAILY_LIMIT /\ r.remaining = 0
            /\ r.retry_hdr >= 0
            /\ r.retry_hdr * TicksPerSec <= r.b_retry_after * TicksPerSec - now
            /\ (r.retry_hdr + 1) * TicksPerSec > r.b_retry_after * TicksPerSec - now

\* C14 case: a request is answered 429 half a second before midnight, with
\* Retry-After 0
C14_Witness ==
    \E p \in Procs :
        /\ proc[p].status = 429 /\ proc[p].retry_hdr = 0
        /\ now % TicksPerDay = TicksPerDay - 1

\* C15: whatever the store does while add_rate_limit_headers runs, the
\* response the handler produced goes out with the handler's status
C15_HeadersBestEffort ==
    \A p \in Procs :
        (proc[p].handler_ran /\ proc[p].pc = "done") => proc[p].by = "handler"

\* C16: an authorized /admin/issue_bypass call with ttl_hours = h (12 when
\* the body omits it), the store being reachable, stores the fresh token
\* with a time-to-live of h * 3600 seconds and answers 200 with ttl_seconds
\* = h * 3600 and expires_at = current time + ttl_seconds; the token is in
\* the store, unless revoked, exactly until that time-to-live has elapsed
C16_IssueStoresForTtl ==
    /\ [][\A p \in Procs :
            (proc[p].pc = "h_setex" /\ proc'[p].pc # "h_setex" /\ store_up)
            => /\ proc'[p].pc = "h_issued"
               /\ bp'[proc[p].h_key] =
                    now + proc[p].ttl_hours * SecondsPerHour * TicksPerSec]_vars
    /\ [][\A p \in Procs :
            (proc[p].pc = "h_issued" /\ proc'[p].pc # "h_issued")
            => /\ proc'[p].status = 200
               /\ proc'[p].b_key = proc[p].h_key
               /\ proc'[p].b_ttl = proc[p].ttl_hours * SecondsPerHour
               /\ proc'[p].b_expires = now + proc'[p].b_ttl * TicksPerSec]_vars
    /\ [](\A p \in Procs :
            (proc[p].pc = "h_setex" /\ proc[p].body_ttl = << >>) => proc[p].ttl_hours = 12)
    /\ [](\A k \in Tokens :
            (tok[k].stored /\ ~tok[k].revoked) => (bp[k] # NoToken <=> now < tok[k].exp))

\* C17: the DEL of an authorized /admin/revoke_bypass call for token t, the
\* store being reachable, leaves bp:t absent, touches no other key and no
\* counter, and is answered 200 with revoked = (t was in the store at that
\* moment), so that revoking an absent token changes nothing; a call
\* without bypass_key is answered 400 and issues no store command
C17_RevokeDeletes ==
    /\ [][\A p \in Procs :
            (proc[p].pc = "h_delete" /\ proc'[p].pc # "h_delete" /\ store_up)
            => LET k == proc[p].body_key IN
               /\ bp'[k] = NoToken
               /\ \A j \in Tokens \ {k} : bp'[j] = bp[j]
               /\ bp[k] = NoToken => bp' = bp
               /\ rl' = rl
               /\ proc'[p].status = 200 /\ proc'[p].by = "handler"
               /\ proc'[p].b_key = k
               /\ proc'[p].b_revoked = (bp[k] # NoToken)]_vars
    /\ [][\A p \in Procs :
            (proc[p].endpoint = "admin_revoke_bypass" /\ proc[p].pc = "handler"
             /\ proc'[p].pc # "handler" /\ proc'[p].body_key = "none")
            => /\ bp' = bp
               /\ ~proc'[p].touched
               /\ (ADMIN_TOKEN /\ proc'[p].admin_hdr = "good" /\ redis_client)
                    => (proc'[p].status = 400 /\ proc'[p].pc = "done")]_vars

\* C17 case: a token that an earlier call revoked is revoked again, and the
\* answer is revoked = false
C17_Witness ==
    \E p \in Procs :
        /\ proc[p].endpoint = "admin_revoke_bypass" /\ proc[p].pc = "done"
        /\ proc[p].status = 200 /\ ~proc[p].b_revoked
        /\ tok[proc[p].b_key].revoked

\* C18: while a UTC day lasts, the counter of an address for that day
\* equals the number of requests of that address the limiter has counted on
\* it, whatever became of them (hence it never decreases and is never
\* deleted during the day)
C18_CounterEqualsCounted ==
    \A i \in IPs, d \in Days :
        utc_day(now) = d => rl[i][d].val = Len(hist[i][d])

\* C19: the identity of a request is the left-most entry of its
\* X-Forwarded-For chain, without the whitespace around it, when the header
\* is there and not empty, and the direct peer otherwise, whatever follows
\* the first entry; the request is metered on the counter of that identity
C19_LeftmostForwardedFor ==
    \A p \in Procs :
        LET r == proc[p] IN
        r.endpoint # "none" =>
            /\ r.xff # << >> => (r.ip \in IPs /\ Leftmost(r.xff, r.ip))
            /\ r.xff = << >> => r.ip = r.remote_addr
            /\ r.nth > 0 => (/\ r.nth <= Len(hist[r.ip][r.key_day])
                             /\ hist[r.ip][r.key_day][r.nth] = r.cur
                             /\ r.cur = r.nth)

\* C19 case: a request whose chain is "a,b", handed over by peer b, is the
\* second or a later request counted for address a
C19_Witness ==
    \E p \in Procs :
        /\ proc[p].xff = <<"a", Comma, "b">> /\ proc[p].remote_addr = "b"
        /\ proc[p].ip = "a" /\ proc[p].cur >= 2 /\ proc[p].cur = rl["a"][0].val

\* C20: a POST /get_transcript request the limiter lets through whose body
\* has no url, a null, empty or blank url, or a url no video id can be
\* extracted from, is answered 400 by the handler, and the transcript
\* provider is not called for it
C20_BadUrlIs400 ==
    \A p \in Procs :
        LET r == proc[p] IN
        (/\ r.endpoint = "get_transcript" /\ r.handler_ran
         /\ \/ ~r.body.has_url
            \/ r.body.null
            \/ \A k \in DOMAIN r.body.url : r.body.url[k] # "V")
        => (r.status = 400 /\ r.by = "handler" /\ ~r.provider)

\* C21: the window resets at the UTC day boundary. A request is counted on
\* the key of the UTC day in which it reads the clock, and the first
\* request counted on a key, the store being reachable, obtains
\* currentCount = 1 and is allowed (DAILY_LIMIT >= 1), whatever the
\* counters of the earlier days hold and whether or not they still exist.
C21_NewDayStartsAtOne ==
    /\ [][\A p \in Procs :
            (proc[p].pc = "mw_key" /\ proc'[p].pc = "mw_incr")
                => proc'[p].key_day = now \div TicksPerDay]_vars
    /\ [](\A p \in Procs :
            (proc[p].nth = 1 /\ proc[p].ret.called /\ ~proc[p].mw_err)
                => /\ proc[p].ret.count = 1
                   /\ proc[p].ret.allowed
                   /\ proc[p].pc # "mw_block"
                   /\ proc[p].status # 429)

\* an address blocked on day 0 (its counter went above the limit) is
\* served on day 1 with a count of 1
C21_Witness ==
    \E p \in Procs :
        /\ proc[p].key_day = 1 /\ now \div TicksPerDay = 1
        /\ Len(hist[proc[p].ip][0]) > DAILY_LIMIT
        /\ proc[p].nth = 1 /\ proc[p].ret.count = 1 /\ proc[p].ret.allowed
        /\ proc[p].handler_ran /\ proc[p].status = 200

\* C22: every counter key in the store has an expiry: once the request
\* that created a key has left the lines between its INCR and its EXPIRE,
\* the key carries a time-to-live, store failures included.
C22_EveryCounterHasExpiry ==
    \A i \in IPs, d \in Days :
        (/\ rl[i][d].val > 0
         /\ \A p \in Procs : ~(/\ proc[p].pc \in {"mw_now", "mw_expire"}
                               /\ proc[p].ip = i /\ proc[p].key_day = d))
            => rl[i][d].exp # -1

\* C23: the expiry of a counter key is set at most once per lifetime of
\* the key, by the request whose INCR returned 1: whenever the expiry of
\* a key that stays in the store changes, the key had no expiry before and
\* the step is the EXPIRE of a request on that key whose count is 1; no
\* other step, of any request, sets, extends or resets it.
C23_ExpirySetOnceByCreator ==
    [][\A i \in IPs, d \in Days :
          (rl'[i][d].val > 0 /\ rl'[i][d].exp # rl[i][d].exp)
              => /\ rl[i][d].exp = -1
                 /\ \E p \in Procs :
                      /\ proc[p].pc = "mw_expire" /\ proc'[p].pc # "mw_expire"
                      /\ proc[p].ip = i /\ proc[p].key_day = d
                      /\ proc[p].cur = 1]_vars

\* two requests on the same key: the first has set the expiry, the second
\* obtained 2 and passed the limiter, and the expiry is the first one's
C23_Witness ==
    \E p, q \in Procs :
        /\ p # q
        /\ proc[p].ip = proc[q].ip /\ proc[p].key_day = proc[q].key_day
        /\ proc[p].cur = 1 /\ proc[p].ret.called /\ ~proc[p].mw_err
        /\ proc[q].cur = 2 /\ proc[q].ret.called
        /\ now > 0
        /\ rl[proc[p].ip][proc[p].key_day].val = 2
        /\ rl[proc[p].ip][proc[p].key_day].exp = next_midnight(0)

\* C24: /admin/rate_limit_status agrees with the limiter: a 200 answer
\* that reports current_count = c reports remaining = max(0, DAILY_LIMIT - c)
\* and rate_limited = TRUE exactly when c > DAILY_LIMIT, the limiter's own
\* test; an address without counter is reported with 0 and not limited.
C24_StatusAgreesWithLimiter ==
    \A p \in Procs :
        (/\ proc[p].pc = "done"
         /\ proc[p].endpoint = "admin_rate_limit_status"
         /\ proc[p].status = 200)
            => /\ proc[p].b_remaining = Max(0, DAILY_LIMIT - proc[p].b_count)
               /\ proc[p].b_limited <=> (proc[p].b_count > DAILY_LIMIT)

\* C25: a successful response to a request that a valid bypass token let
\* through the limiter never carries the X-RateLimit-* headers, also when
\* the token is revoked or expires between the check before the request
\* and the hook after it.
C25_BypassedNeverAnnotated ==
    \A p \in Procs :
        (/\ proc[p].pc = "done"
         /\ proc[p].tok_live = "yes"
         /\ proc[p].status < 400)
            => ~proc[p].xrl

\* C26: the X-RateLimit-* headers appear only on the responses of metered
\* routes: a response of /health, /admin/issue_bypass or
\* /admin/revoke_bypass never carries them.
C26_ExemptNeverAnnotated ==
    \A p \in Procs :
        (/\ proc[p].pc = "done"
         /\ proc[p].endpoint \in {"health", "admin_issue_bypass", "admin_revoke_bypass"})
            => ~proc[p].xrl

\* C27: a request to an admin route that the authorization gate rejects
\* (401 or 503) leaves the store unchanged: it incremented no counter
\* (it performed no INCR), stored no token and deleted none.
C27_RejectedAdminLeavesStore ==
    \A p \in Procs :
        (/\ proc[p].pc = "done"
         /\ proc[p].endpoint \in AdminEndpoints
         /\ proc[p].by = "handler"
         /\ proc[p].status \in {401, 503})
            => /\ proc[p].nth = 0
               /\ proc[p].h_key = "none"
               /\ proc[p].body_key = "none"

\* C28: /admin/issue_bypass answers 200 with a bypass_key only after that
\* token was stored; an authorized request answers 503 when no store is
\* configured, and 500 when storing fails (the store raises, or ttl_hours
\* gives a time-to-live Redis rejects); in both cases no token is returned
\* and none is left in the store.
C28_IssueAnswersAfterStoring ==
    \A p \in Procs :
        (proc[p].pc = "done" /\ proc[p].endpoint = "admin_issue_bypass")
            => /\ (proc[p].status = 200)
                    => /\ proc[p].b_key # "none"
                       /\ proc[p].b_key = proc[p].h_key
                       /\ tok[proc[p].b_key].stored
               /\ (ADMIN_TOKEN /\ proc[p].admin_hdr = "good" /\ ~redis_client)
                    => /\ proc[p].status = 503
                       /\ proc[p].h_key = "none" /\ proc[p].b_key = "none"
                       /\ \A k \in Tokens : bp[k] = NoToken
               /\ (proc[p].h_key # "none" /\ ~tok[proc[p].h_key].stored)
                    => /\ proc[p].status = 500
                       /\ proc[p].b_key = "none"
                       /\ bp[proc[p].h_key] = NoToken

\* an authorized request with ttl_hours = 0 while the store is reachable:
\* SETEX is rejected, the answer is 500 and the token is not in the store
C28_Witness ==
    \E p \in Procs :
        /\ proc[p].pc = "done" /\ proc[p].endpoint = "admin_issue_bypass"
        /\ proc[p].admin_hdr = "good" /\ store_up
        /\ proc[p].body_ttl = <<0>> /\ proc[p].h_key # "none"
        /\ proc[p].status = 500 /\ proc[p].by = "handler"
        /\ bp[proc[p].h_key] = NoToken

\* C29: quota isolation. A step of a request to a rate-limited route from
\* address A, keyed on day D, changes at most the counter key (A, D): the
\* counters of every other address and day and every bypass token stay as
\* they were. Hence a request is blocked only when more than DAILY_LIMIT
\* requests of its own address were counted on its own key: the requests
\* of one client never cause the request of another to be blocked.
C29_QuotaIsolation ==
    /\ [][\A p \in Procs :
            (/\ proc[p].pc # "idle"
             /\ proc[p].endpoint \notin ExemptEndpoints
             /\ proc'[p] # proc[p])
                => /\ bp' = bp
                   /\ \A i \in IPs, d \in Days :
                        (i # proc[p].ip \/ d # proc[p].key_day)
                            => rl'[i][d] = rl[i][d]]_vars
    /\ [](\A p \in Procs :
            (proc[p].ret.called /\ ~proc[p].ret.allowed)
                => Len(hist[proc[p].ip][proc[p].key_day]) > DAILY_LIMIT)

\* address a is above the limit while a request of address b is counted 1
\* and served
C29_Witness ==
    \E p \in Procs :
        /\ proc[p].ip = "b" /\ proc[p].key_day = 0
        /\ rl["a"][0].val > DAILY_LIMIT /\ rl["b"][0].val = 1
        /\ proc[p].ret.called /\ proc[p].ret.allowed /\ proc[p].ret.count = 1
        /\ proc[p].handler_ran

====
